---- MODULE Spec2Model ----
(***************************************************************************)
(* The deals table of src/app/_dash/_components/deals-table.tsx: the       *)
(* record store (tableData), the view state (uiState, columnConfig), the   *)
(* filter -> sort pipeline, the row / column / bulk handlers and the       *)
(* localStorage persistence.                                               *)
(*                                                                         *)
(* JavaScript strings are sequences of one-character strings, so that      *)
(* toLowerCase, includes, < and template literals are computed character   *)
(* by character.  Column ids and record field names are TLA+ strings.      *)
(***************************************************************************)
EXTENDS Integers, Sequences, FiniteSets, TLC

VARIABLES
    tableData,            \* useState<Deal[]>(mockData)
    uiState,              \* useState<UIState>
    columnConfig,         \* the descriptor sequence setColumnConfig writes
    storage,              \* localStorage: key -> blob
    storageDown,          \* localStorage.setItem throws (unavailable, over quota)
    announcementMessage,  \* useState("")
    now,                  \* Date.now()
    crashed,              \* an error escaped a state updater: the component is gone
    last,                 \* history: the handler that ran last
    events                \* history: the events handled, where a session is bounded

vars == <<tableData, uiState, columnConfig, storage, storageDown,
          announcementMessage, now, crashed, last, events>>

---------------------------------------------------------------------------
(* Bounds of the model *)

\* records of mockData the record store starts with
NumSeed == 2
\* records the store may grow to by duplication
MaxRecords == 3
\* values Date.now() takes: 0..MaxClock
MaxClock == 1
\* entries a sort specification may grow to by header clicks
MaxSorts == 2
\* characters a record id may grow to by duplication of copies
MaxIdLength == 15
\* events of a session in the specification that bounds the session
MaxEvents == 4
\* length of the record lists the pipeline is given in InitPipeline
MaxRows == 2

---------------------------------------------------------------------------
(* JavaScript strings *)

\* the printable ASCII characters, code units 32..126 ("GRAVE" stands for the
\* grave accent, code unit 96, which a TLA+ string cannot hold)
Ascii ==
    <<" ","!","\"","#","$","%","&","'","(",")","*","+",",","-",".","/","0","1","2","3","4","5","6","7","8","9",":",";","<","=",">","?">> \o
    <<"@","A","B","C","D","E","F","G","H","I","J","K","L","M","N","O","P","Q","R","S","T","U","V","W","X","Y","Z","[","\\","]","^","_">> \o
    <<"GRAVE","a","b","c","d","e","f","g","h","i","j","k","l","m","n","o","p","q","r","s","t","u","v","w","x","y","z","{","|","}","~">>

\* the code unit of each character
CodeUnit ==
    [c \in {Ascii[i] : i \in 1..Len(Ascii)} |->
        31 + (CHOOSE i \in 1..Len(Ascii) : Ascii[i] = c)]

Code(c) == CodeUnit[c]

\* the lower-case form of each character: A..Z (65..90) move up by 32
LowerCaseOf ==
    [c \in DOMAIN CodeUnit |->
        IF CodeUnit[c] \in 65..90 THEN Ascii[CodeUnit[c] + 32 - 31] ELSE c]

ToLowerChar(c) == LowerCaseOf[c]

toLowerCase(s) == [i \in 1..Len(s) |-> ToLowerChar(s[i])]

\* String.prototype.includes
includes(s, t) == \E i \in 0..(Len(s) - Len(t)) : SubSeq(s, i + 1, i + Len(t)) = t

\* a < b on two strings: by code unit, a proper prefix is smaller
StrLess(a, b) ==
    LET n == IF Len(a) < Len(b) THEN Len(a) ELSE Len(b)
        diff == {i \in 1..n : a[i] # b[i]}
    IN  IF diff = {} THEN Len(a) < Len(b)
        ELSE LET k == CHOOSE i \in diff : \A j \in diff : i <= j
             IN  Code(a[k]) < Code(b[k])

RECURSIVE NumberToString(_)
\* `${n}` of a non-negative integer
NumberToString(n) ==
    IF n < 10 THEN <<Ascii[n + 17]>>
    ELSE NumberToString(n \div 10) \o <<Ascii[(n % 10) + 17]>>

\* Array.prototype.includes
InSeq(x, s) == \E i \in 1..Len(s) : s[i] = x

---------------------------------------------------------------------------
(* The data *)

StageDiscovery == <<"D","i","s","c","o","v","e","r","y">>
StageProposal == <<"P","r","o","p","o","s","a","l">>
StageNegotiation == <<"N","e","g","o","t","i","a","t","i","o","n">>
StageClosedWon == <<"C","l","o","s","e","d"," ","W","o","n">>
StageClosedLost == <<"C","l","o","s","e","d"," ","L","o","s","t">>

mockData == <<
    [id |-> <<"1">>,
     deal |-> <<"E","n","t","e","r","p","r","i","s","e"," ","S","o","f","t","w","a","r","e"," ","L","i","c","e","n","s","e">>,
     activitiesTimeline |-> <<>>,
     stage |-> StageProposal,
     dealValue |-> 125000,
     contacts |-> <<"J","o","h","n"," ","S","m","i","t","h",","," ","M","a","r","y"," ","J","o","h","n","s","o","n">>,
     owner |-> <<"A","l","e","x"," ","C","h","e","n">>,
     accounts |-> <<"T","e","c","h","C","o","r","p"," ","I","n","c","."," ","-"," ","E","n","t","e","r","p","r","i","s","e">>,
     expectedClose |-> <<"2","0","2","4","-","0","3","-","1","5">>,
     forecastValue |-> 112500],
    [id |-> <<"2">>,
     deal |-> <<"C","l","o","u","d"," ","M","i","g","r","a","t","i","o","n"," ","P","r","o","j","e","c","t">>,
     activitiesTimeline |-> <<>>,
     stage |-> StageNegotiation,
     dealValue |-> 85000,
     contacts |-> <<"S","a","r","a","h"," ","J","o","h","n","s","o","n",","," ","M","i","k","e"," ","D","a","v","i","s",","," ","L","i","s","a"," ","W","o","n","g">>,
     owner |-> <<"S","a","m"," ","W","i","l","s","o","n">>,
     accounts |-> <<"D","a","t","a","F","l","o","w"," ","S","y","s","t","e","m","s"," ","-"," ","M","i","d","-","M","a","r","k","e","t">>,
     expectedClose |-> <<"2","0","2","4","-","0","2","-","2","8">>,
     forecastValue |-> 76500],
    [id |-> <<"3">>,
     deal |-> <<"M","a","r","k","e","t","i","n","g"," ","A","u","t","o","m","a","t","i","o","n"," ","S","e","t","u","p">>,
     activitiesTimeline |-> <<>>,
     stage |-> StageProposal,
     dealValue |-> 45000,
     contacts |-> <<"M","i","k","e"," ","D","a","v","i","s",","," ","J","e","n","n","i","f","e","r"," ","L","e","e">>,
     owner |-> <<"E","m","m","a"," ","B","r","o","w","n">>,
     accounts |-> <<"G","r","o","w","t","h","C","o"," ","-"," ","S","m","a","l","l"," ","B","u","s","i","n","e","s","s">>,
     expectedClose |-> <<"2","0","2","4","-","0","2","-","1","5">>,
     forecastValue |-> 40500],
    [id |-> <<"4">>,
     deal |-> <<"S","e","c","u","r","i","t","y"," ","A","u","d","i","t"," ","&"," ","C","o","m","p","l","i","a","n","c","e">>,
     activitiesTimeline |-> <<>>,
     stage |-> StageClosedWon,
     dealValue |-> 95000,
     contacts |-> <<"L","i","s","a"," ","C","h","e","n",","," ","R","o","b","e","r","t"," ","K","i","m",","," ","D","a","v","i","d"," ","P","a","r","k">>,
     owner |-> <<"J","a","m","e","s"," ","L","i","u">>,
     accounts |-> <<"S","e","c","u","r","e","B","a","n","k"," ","-"," ","F","i","n","a","n","c","i","a","l"," ","S","e","r","v","i","c","e","s">>,
     expectedClose |-> <<"2","0","2","4","-","0","1","-","3","0">>,
     forecastValue |-> 95000],
    [id |-> <<"5">>,
     deal |-> <<"C","u","s","t","o","m"," ","D","a","s","h","b","o","a","r","d"," ","D","e","v","e","l","o","p","m","e","n","t">>,
     activitiesTimeline |-> <<>>,
     stage |-> StageDiscovery,
     dealValue |-> 65000,
     contacts |-> <<"T","o","m"," ","W","i","l","s","o","n",","," ","A","n","n","a"," ","M","a","r","t","i","n","e","z">>,
     owner |-> <<"C","h","r","i","s"," ","T","a","y","l","o","r">>,
     accounts |-> <<"A","n","a","l","y","t","i","c","s"," ","P","r","o"," ","-"," ","T","e","c","h","n","o","l","o","g","y">>,
     expectedClose |-> <<"2","0","2","4","-","0","3","-","3","0">>,
     forecastValue |-> 58500]
    >>

DealFields ==
    {"id", "deal", "activitiesTimeline", "stage", "dealValue", "contacts",
     "owner", "accounts", "expectedClose", "forecastValue"}

NumberFields == {"dealValue", "forecastValue"}

ColumnIdText(col) ==
    CASE col = "select" -> <<"s","e","l","e","c","t">>
      [] col = "expand" -> <<"e","x","p","a","n","d">>
      [] col = "deal" -> <<"d","e","a","l">>
      [] col = "stage" -> <<"s","t","a","g","e">>
      [] col = "dealValue" -> <<"d","e","a","l","V","a","l","u","e">>
      [] col = "owner" -> <<"o","w","n","e","r">>
      [] col = "expectedClose" -> <<"e","x","p","e","c","t","e","d","C","l","o","s","e">>
      [] col = "activitiesTimeline" -> <<"a","c","t","i","v","i","t","i","e","s","T","i","m","e","l","i","n","e">>
      [] col = "lastInteraction" -> <<"l","a","s","t","I","n","t","e","r","a","c","t","i","o","n">>
      [] col = "quotesInvoices" -> <<"q","u","o","t","e","s","I","n","v","o","i","c","e","s">>
      [] col = "contacts" -> <<"c","o","n","t","a","c","t","s">>
      [] col = "accounts" -> <<"a","c","c","o","u","n","t","s">>
      [] col = "forecastValue" -> <<"f","o","r","e","c","a","s","t","V","a","l","u","e">>

\* locked?: boolean is absent on the unlocked descriptors; absent reads as FALSE
DefaultColumnConfig == <<
    [id |-> "select", label |-> "Select", visible |-> TRUE, locked |-> TRUE, width |-> 36],
    [id |-> "expand", label |-> "Expand", visible |-> TRUE, locked |-> TRUE, width |-> 36],
    [id |-> "deal", label |-> "Deal", visible |-> TRUE, locked |-> TRUE, width |-> 150],
    [id |-> "stage", label |-> "Stage", visible |-> TRUE, locked |-> FALSE, width |-> 150],
    [id |-> "dealValue", label |-> "Deal Value", visible |-> TRUE, locked |-> FALSE, width |-> 180],
    [id |-> "owner", label |-> "Owner", visible |-> TRUE, locked |-> FALSE, width |-> 180],
    [id |-> "expectedClose", label |-> "Expected Close", visible |-> TRUE, locked |-> FALSE, width |-> 180],
    [id |-> "activitiesTimeline", label |-> "Activities Timeline", visible |-> FALSE, locked |-> FALSE, width |-> 200],
    [id |-> "lastInteraction", label |-> "Last Interaction", visible |-> FALSE, locked |-> FALSE, width |-> 150],
    [id |-> "quotesInvoices", label |-> "Quotes & Invoices", visible |-> FALSE, locked |-> FALSE, width |-> 220],
    [id |-> "contacts", label |-> "Contacts", visible |-> FALSE, locked |-> FALSE, width |-> 180],
    [id |-> "accounts", label |-> "Accounts", visible |-> FALSE, locked |-> FALSE, width |-> 180],
    [id |-> "forecastValue", label |-> "Forecast Value", visible |-> FALSE, locked |-> FALSE, width |-> 180]
    >>

EmptyMap == [x \in {} |-> TRUE]

\* {...m, [k]: v}
Put(m, k, v) == [x \in DOMAIN m \cup {k} |-> IF x = k THEN v ELSE m[x]]

DefaultFilters ==
    [search |-> <<>>, stage |-> <<>>, owner |-> <<>>, dealValueRange |-> <<0, 200000>>]

DefaultUIState ==
    [rowSelection |-> EmptyMap,
     columnConfig |-> DefaultColumnConfig,
     headerValues |-> EmptyMap,
     selectedTemplates |-> <<>>,
     expandedRows |-> <<>>,
     filters |-> DefaultFilters,
     sorts |-> <<>>,
     columnWidths |-> EmptyMap]

---------------------------------------------------------------------------
(* The derived-data pipeline *)

\* the callback with the search compared as typed: the fields are not lower-cased
PassesFilterCaseSensitive(deal, filters) ==
    /\ \/ filters.search = <<>>
       \/ LET searchLower == toLowerCase(filters.search)
          IN  \E field \in {deal.deal, deal.owner, deal.accounts, deal.contacts} :
                  includes(field, searchLower)
    /\ ~(Len(filters.stage) > 0 /\ ~InSeq(deal.stage, filters.stage))
    /\ ~(Len(filters.owner) > 0 /\ ~InSeq(deal.owner, filters.owner))
    /\ ~(\/ deal.dealValue < filters.dealValueRange[1]
         \/ deal.dealValue > filters.dealValueRange[2])

\* the callback of tableData.filter
PassesFilter(deal, filters) ==
    /\ \/ filters.search = <<>>
       \/ LET searchLower == toLowerCase(filters.search)
          IN  \E field \in {deal.deal, deal.owner, deal.accounts, deal.contacts} :
                  includes(toLowerCase(field), searchLower)
    /\ ~(Len(filters.stage) > 0 /\ ~InSeq(deal.stage, filters.stage))
    /\ ~(Len(filters.owner) > 0 /\ ~InSeq(deal.owner, filters.owner))
    /\ ~(\/ deal.dealValue < filters.dealValueRange[1]
         \/ deal.dealValue > filters.dealValueRange[2])

filteredData(data, filters) ==
    LET Test(deal) == PassesFilter(deal, filters)
    IN  SelectSeq(data, Test)

\* the comparison without the lower-casing of two strings
ValueLessCaseSensitive(a, b, column) ==
    IF column \notin DealFields THEN FALSE
    ELSE IF column \in NumberFields THEN a[column] < b[column]
    ELSE StrLess(a[column], b[column])

\* aVal < bVal for aVal = a[column], bVal = b[column], two strings lower-cased
\* first; a column that is no field of Deal reads undefined on both sides, and
\* undefined < undefined is false
ValueLess(a, b, column) ==
    IF column \notin DealFields THEN FALSE
    ELSE IF column \in NumberFields THEN a[column] < b[column]
    ELSE StrLess(toLowerCase(a[column]), toLowerCase(b[column]))

RECURSIVE compareDeals(_, _, _)
\* the comparator handed to sort: the first key that tells a and b apart decides
compareDeals(a, b, sorts) ==
    IF sorts = <<>> THEN 0
    ELSE LET sort == Head(sorts)
         IN  IF ValueLess(a, b, sort.column)
                 THEN (IF sort.direction = "asc" THEN -1 ELSE 1)
             ELSE IF ValueLess(b, a, sort.column)
                 THEN (IF sort.direction = "asc" THEN 1 ELSE -1)
             ELSE compareDeals(a, b, Tail(sorts))

RECURSIVE InsertDeal(_, _, _)
\* x put before the first element that the comparator places after it
InsertDeal(done, x, sorts) ==
    IF done = <<>> THEN <<x>>
    ELSE IF compareDeals(x, Head(done), sorts) < 0 THEN <<x>> \o done
    ELSE <<Head(done)>> \o InsertDeal(Tail(done), x, sorts)

RECURSIVE ArraySort(_, _)
\* Array.prototype.sort with the comparator: a stable sort (insertion sort here)
ArraySort(data, sorts) ==
    IF data = <<>> THEN <<>>
    ELSE InsertDeal(ArraySort(SubSeq(data, 1, Len(data) - 1), sorts),
                    data[Len(data)], sorts)

\* the sort stage falling back to an order by title when there is no key
sortedDataByTitle(filtered, sorts) ==
    IF Len(sorts) = 0
    THEN ArraySort(filtered, <<[column |-> "deal", direction |-> "asc"]>>)
    ELSE ArraySort(filtered, sorts)

sortedData(filtered, sorts) ==
    IF Len(sorts) = 0 THEN filtered ELSE ArraySort(filtered, sorts)

\* the rows the table body renders
VisibleRows == sortedData(filteredData(tableData, uiState.filters), uiState.sorts)

RowIds(rows) == {rows[i].id : i \in 1..Len(rows)}

\* the header cells rendered: the visible descriptors, then the dynamic columns
\* of selectedTemplates (which no handler fills)
HeaderColumns == {columnConfig[i].id : i \in {j \in 1..Len(columnConfig) : columnConfig[j].visible}}

\* !!rowSelection[id]
IsSelected(rowSelection, id) == id \in DOMAIN rowSelection /\ rowSelection[id]

\* Object.keys(rowSelection).filter(id => rowSelection[id])
SelectedIds(rowSelection) == {id \in DOMAIN rowSelection : rowSelection[id]}

---------------------------------------------------------------------------
(* The totals bar *)

\* a / b of two integers, b > 0, kept as the exact quotient (the model does not
\* round to a double)
Quotient(a, b) == [num |-> a, den |-> b]

\* q * k
Times(q, k) == [num |-> q.num * k, den |-> q.den]

Zero == Quotient(0, 1)

RECURSIVE SumOf(_, _)
\* rows.reduce((sum, deal) => sum + deal[field], 0)
SumOf(rows, field) ==
    IF rows = <<>> THEN 0
    ELSE SumOf(SubSeq(rows, 1, Len(rows) - 1), field) + rows[Len(rows)][field]

\* rows.reduce((acc, deal) => { acc[deal[field]] = (acc[deal[field]] || 0) + 1 }, {})
Breakdown(rows, field) ==
    [value \in {rows[i][field] : i \in 1..Len(rows)} |->
        Cardinality({i \in 1..Len(rows) : rows[i][field] = value})]

\* the totals with the average and the rate taken over the whole store
totalsOverStore(rows, data, rowSelection) ==
    LET stageBreakdown == Breakdown(rows, "stage")
    IN  [visible |-> Len(rows),
         total |-> Len(data),
         selected |-> Cardinality({id \in DOMAIN rowSelection : rowSelection[id]}),
         dealValueSum |-> SumOf(rows, "dealValue"),
         forecastValueSum |-> SumOf(rows, "forecastValue"),
         stageBreakdown |-> stageBreakdown,
         ownerBreakdown |-> Breakdown(rows, "owner"),
         averageDealValue |->
             IF Len(data) > 0 THEN Quotient(SumOf(rows, "dealValue"), Len(data)) ELSE Zero,
         conversionRate |->
             IF StageClosedWon \in DOMAIN stageBreakdown
             THEN Times(Quotient(stageBreakdown[StageClosedWon], Len(data)), 100)
             ELSE Zero]

\* totals, from the rows displayed, the store and the selection map
totals(rows, data, rowSelection) ==
    LET visible == Len(rows)
        dealValueSum == SumOf(rows, "dealValue")
        stageBreakdown == Breakdown(rows, "stage")
    IN  [visible |-> visible,
         total |-> Len(data),
         selected |-> Cardinality({id \in DOMAIN rowSelection : rowSelection[id]}),
         dealValueSum |-> dealValueSum,
         forecastValueSum |-> SumOf(rows, "forecastValue"),
         stageBreakdown |-> stageBreakdown,
         ownerBreakdown |-> Breakdown(rows, "owner"),
         averageDealValue |-> IF visible > 0 THEN Quotient(dealValueSum, visible) ELSE Zero,
         conversionRate |->
             IF StageClosedWon \in DOMAIN stageBreakdown
             THEN Times(Quotient(stageBreakdown[StageClosedWon], visible), 100)
             ELSE Zero]

\* the totals handed to the totals bar
Totals == totals(VisibleRows, tableData, uiState.rowSelection)

---------------------------------------------------------------------------
(* Persistence *)

EffectKey == "dealsTableUIState"
SaveKey == "deals-table-ui-state"

\* localStorage.getItem of a key never written
Absent == [absent |-> TRUE]

\* JSON.stringify of a UIState: every value in it is a string, a finite number,
\* a boolean, an array or a plain object, which JSON text holds as they are
JSONstringify(state) == [text |-> state]

\* the effect writing under the key of saveUIState
PersistEffectSaveKey(store, state) ==
    IF storageDown THEN store
    ELSE [store EXCEPT !["deals-table-ui-state"] = JSONstringify(state)]

\* the effect on [uiState]: localStorage.setItem inside try / catch
PersistEffect(store, state) ==
    IF storageDown THEN store
    ELSE [store EXCEPT ![EffectKey] = JSONstringify(state)]

\* the write of saveUIState: localStorage.setItem inside try / catch
SaveWrite(store, state) ==
    IF storageDown THEN store
    ELSE [store EXCEPT ![SaveKey] = JSONstringify(state)]

\* setUiState whose update is dropped when the write of the effect fails
SetUiStateIfWritten(newState) ==
    /\ uiState' = IF storageDown THEN uiState ELSE newState
    /\ storage' = PersistEffect(storage, uiState')

\* setUiState(prev => newState), then the effect on [uiState]
SetUiState(newState) ==
    /\ uiState' = newState
    /\ storage' = PersistEffect(storage, newState)

\* saveUIState(prev => newState): its own write, then the effect on [uiState]
SaveUIState(newState) ==
    /\ uiState' = newState
    /\ storage' = PersistEffect(SaveWrite(storage, newState), newState)

---------------------------------------------------------------------------
(* The state after construction: first load, nothing persisted, the mount effect
   has run *)

NoLast == [op |-> "init", run |-> 0, before |-> {}, beforePrevious |-> {}]

Did(op) == [NoLast EXCEPT !.op = op]

InitView ==
    /\ uiState = DefaultUIState
    /\ columnConfig = DefaultColumnConfig
    /\ storage = [k \in {EffectKey, SaveKey} |->
                    IF k = EffectKey THEN JSONstringify(DefaultUIState) ELSE Absent]
    /\ storageDown = FALSE
    /\ announcementMessage = <<>>
    /\ now = 0
    /\ crashed = FALSE
    /\ last = NoLast
    /\ events = 0

Init ==
    /\ tableData = SubSeq(mockData, 1, NumSeed)
    /\ InitView

---------------------------------------------------------------------------
(* Header click: handleSort *)

\* handleSort with a new column put first, as the primary key
HandleSortResultPrimary(currentSorts, column) ==
    LET existing == {i \in 1..Len(currentSorts) : currentSorts[i].column = column}
    IN  IF existing # {}
        THEN LET first == CHOOSE i \in existing : \A j \in existing : i <= j
             IN  IF currentSorts[first].direction = "asc"
                 THEN [i \in 1..Len(currentSorts) |->
                          IF currentSorts[i].column = column
                          THEN [currentSorts[i] EXCEPT !.direction = "desc"]
                          ELSE currentSorts[i]]
                 ELSE LET Keep(s) == s.column # column
                      IN  SelectSeq(currentSorts, Keep)
        ELSE <<[column |-> column, direction |-> "asc"]>> \o currentSorts

\* newSorts of handleSort
HandleSortResult(currentSorts, column) ==
    LET existing == {i \in 1..Len(currentSorts) : currentSorts[i].column = column}
    IN  IF existing # {}
        THEN LET first == CHOOSE i \in existing : \A j \in existing : i <= j
             IN  IF currentSorts[first].direction = "asc"
                 THEN [i \in 1..Len(currentSorts) |->
                          IF currentSorts[i].column = column
                          THEN [currentSorts[i] EXCEPT !.direction = "desc"]
                          ELSE currentSorts[i]]
                 ELSE LET Keep(s) == s.column # column
                      IN  SelectSeq(currentSorts, Keep)
        ELSE currentSorts \o <<[column |-> column, direction |-> "asc"]>>

HandleSort(columnId) ==
    /\ ~crashed
    /\ columnId \in HeaderColumns
    /\ Len(HandleSortResult(uiState.sorts, columnId)) <= MaxSorts
    /\ SetUiState([uiState EXCEPT !.sorts = HandleSortResult(uiState.sorts, columnId)])
    /\ last' = Did("handleSort")
    /\ UNCHANGED <<tableData, columnConfig, storageDown, announcementMessage, now, crashed>>

---------------------------------------------------------------------------
(* Selection and expansion *)

\* rowSelection of handleSelectRow
HandleSelectRowResult(rowSelection, rowId) ==
    Put(rowSelection, rowId, ~IsSelected(rowSelection, rowId))

\* keyboard selection of a rendered row
HandleSelectRow(rowId) ==
    /\ ~crashed
    /\ rowId \in RowIds(VisibleRows)
    /\ SetUiState([uiState EXCEPT
                       !.rowSelection = HandleSelectRowResult(uiState.rowSelection, rowId)])
    /\ last' = Did("handleSelectRow")
    /\ UNCHANGED <<tableData, columnConfig, storageDown, announcementMessage, now, crashed>>

\* the checkbox of a rendered row: e.target.checked is the negation of what
\* the checkbox showed, !!rowSelection[deal.id]
SelectCheckboxChange(dealId) ==
    /\ ~crashed
    /\ dealId \in RowIds(VisibleRows)
    /\ LET checked == ~IsSelected(uiState.rowSelection, dealId)
           newSelection == Put(uiState.rowSelection, dealId, checked)
       IN  SaveUIState([uiState EXCEPT !.rowSelection = newSelection])
    /\ last' = Did("selectCheckbox")
    /\ UNCHANGED <<tableData, columnConfig, storageDown, announcementMessage, now, crashed>>

\* handleSelectAll with rows.some for rows.every
HandleSelectAllSome(currentSelection, rows) ==
    LET someSelected == \E i \in 1..Len(rows) : IsSelected(currentSelection, rows[i].id)
    IN  IF someSelected THEN EmptyMap
        ELSE [id \in RowIds(rows) |-> TRUE]

\* handleSelectAll that never clears
HandleSelectAllNoToggle(currentSelection, rows) ==
    [id \in RowIds(rows) |-> TRUE]

\* rowSelection of handleSelectAll(rows)
HandleSelectAllResult(currentSelection, rows) ==
    LET allSelected == \A i \in 1..Len(rows) : IsSelected(currentSelection, rows[i].id)
    IN  IF allSelected THEN EmptyMap
        ELSE [id \in RowIds(rows) |-> TRUE]

\* select-all of the rendered rows
HandleSelectAll ==
    /\ ~crashed
    /\ SetUiState([uiState EXCEPT
                       !.rowSelection = HandleSelectAllResult(uiState.rowSelection, VisibleRows)])
    /\ last' = [op |-> "handleSelectAll",
                run |-> IF last.op = "handleSelectAll" THEN 2 ELSE 1,
                before |-> SelectedIds(uiState.rowSelection),
                beforePrevious |-> IF last.op = "handleSelectAll" THEN last.before ELSE {}]
    /\ UNCHANGED <<tableData, columnConfig, storageDown, announcementMessage, now, crashed>>

RECURSIVE ArrayFromSet(_)
\* Array.from(new Set(list)): the values of the list in the order of their
\* first occurrence, each once
ArrayFromSet(list) ==
    IF list = <<>> THEN <<>>
    ELSE LET front == ArrayFromSet(SubSeq(list, 1, Len(list) - 1))
             x == list[Len(list)]
         IN  IF InSeq(x, front) THEN front ELSE front \o <<x>>

\* toggleRowExpansion that collapses the other rows when it expands one
ToggleRowExpansionSingle(currentExpanded, rowId) ==
    IF InSeq(rowId, currentExpanded)
    THEN LET Keep(id) == id # rowId IN SelectSeq(ArrayFromSet(currentExpanded), Keep)
    ELSE <<rowId>>

\* expandedRows of toggleRowExpansion: a Set of the list, the id deleted or
\* added, Array.from of the Set (which keeps insertion order)
ToggleRowExpansionResult(currentExpanded, rowId) ==
    IF InSeq(rowId, currentExpanded)
    THEN LET Keep(id) == id # rowId IN SelectSeq(ArrayFromSet(currentExpanded), Keep)
    ELSE ArrayFromSet(currentExpanded) \o <<rowId>>

\* the ids of the expanded-row list
ExpandedIds(expandedRows) == {expandedRows[i] : i \in 1..Len(expandedRows)}

ToggleRowExpansion(rowId) ==
    /\ ~crashed
    /\ rowId \in RowIds(VisibleRows)
    /\ SetUiState([uiState EXCEPT
                       !.expandedRows = ToggleRowExpansionResult(uiState.expandedRows, rowId)])
    /\ LET again == last.op = "toggleRowExpansion" /\ last.row = rowId
       IN  last' = [op |-> "toggleRowExpansion",
                    run |-> IF again THEN 2 ELSE 1,
                    before |-> ExpandedIds(uiState.expandedRows),
                    beforePrevious |-> IF again THEN last.before ELSE {},
                    row |-> rowId]
    /\ UNCHANGED <<tableData, columnConfig, storageDown, announcementMessage, now, crashed>>

---------------------------------------------------------------------------
(* Column width and filters *)

\* DEFAULT_COLUMN_WIDTHS.template
DefaultTemplateWidth == 180

\* the width handed to a header:
\* columnWidths[col.id] || col.width || DEFAULT_COLUMN_WIDTHS.template
ResolvedWidth(col, columnWidths) ==
    IF col.id \in DOMAIN columnWidths /\ columnWidths[col.id] # 0
    THEN columnWidths[col.id]
    ELSE IF col.width # 0 THEN col.width ELSE DefaultTemplateWidth

HandleColumnResize(columnId, width) ==
    /\ ~crashed
    /\ columnId \in HeaderColumns
    /\ SetUiState([uiState EXCEPT !.columnWidths = Put(uiState.columnWidths, columnId, width)])
    /\ last' = Did("handleColumnResize")
    /\ UNCHANGED <<tableData, columnConfig, storageDown, announcementMessage, now, crashed>>

\* the filter update that also empties the selection
FiltersChangeClearsSelection(prev, newFilters) ==
    [prev EXCEPT !.filters = newFilters, !.rowSelection = EmptyMap]

\* the updater of the toolbar callbacks: { ...prev, filters: newFilters }
FiltersChangeResult(prev, newFilters) == [prev EXCEPT !.filters = newFilters]

OnFiltersChange(newFilters) ==
    /\ ~crashed
    /\ SaveUIState(FiltersChangeResult(uiState, newFilters))
    /\ last' = Did("onFiltersChange")
    /\ UNCHANGED <<tableData, columnConfig, storageDown, announcementMessage, now, crashed>>

OnClearFilters ==
    /\ ~crashed
    /\ SaveUIState(FiltersChangeResult(uiState, DefaultFilters))
    /\ last' = Did("onClearFilters")
    /\ UNCHANGED <<tableData, columnConfig, storageDown, announcementMessage, now, crashed>>

---------------------------------------------------------------------------
(* Bulk and row actions *)

MsgDeleted == <<"D","e","l","e","t","e","d"," ">>
MsgDeal == <<" ","d","e","a","l">>
MsgPlural == <<"s">>
MsgDuplicated == <<"D","e","a","l"," ","d","u","p","l","i","c","a","t","e","d"," ","s","u","c","c","e","s","s","f","u","l","l","y">>
MsgDealDeleted == <<"D","e","a","l"," ","d","e","l","e","t","e","d">>
MsgHidden == <<"H","i","d","d","e","n"," ">>
MsgColumn == <<" ","c","o","l","u","m","n">>
CopySuffix == <<" ","(","C","o","p","y",")">>
CopyInfix == <<"-","c","o","p","y","-">>

\* selectedRowIds of handleBulkAction
BulkSelectedRowIds(rowSelection) == DOMAIN rowSelection

\* tableData of handleBulkAction("delete")
BulkDeleteResult(data, rowSelection) ==
    LET Keep(deal) == deal.id \notin BulkSelectedRowIds(rowSelection)
    IN  SelectSeq(data, Keep)

\* the Delete button of the selection bar, rendered while some id is selected
HandleBulkDelete ==
    /\ ~crashed
    /\ SelectedIds(uiState.rowSelection) # {}
    /\ tableData' = BulkDeleteResult(tableData, uiState.rowSelection)
    /\ SetUiState([uiState EXCEPT !.rowSelection = EmptyMap])
    /\ LET n == Cardinality(BulkSelectedRowIds(uiState.rowSelection))
       IN  announcementMessage' =
               MsgDeleted \o NumberToString(n) \o MsgDeal \o (IF n # 1 THEN MsgPlural ELSE <<>>)
    /\ last' = Did("bulkDelete")
    /\ UNCHANGED <<columnConfig, storageDown, now, crashed>>

\* the copy with the title left as it is
DuplicateDealSameTitle(originalDeal, dealId, dateNow) ==
    [originalDeal EXCEPT !.id = dealId \o CopyInfix \o NumberToString(dateNow)]

\* newDeal of handleRowAction("duplicate")
DuplicateDeal(originalDeal, dealId, dateNow) ==
    [originalDeal EXCEPT
        !.id = dealId \o CopyInfix \o NumberToString(dateNow),
        !.deal = originalDeal.deal \o CopySuffix]

\* tableData.find(deal => deal.id === dealId)
FindDeal(data, dealId) ==
    data[CHOOSE i \in 1..Len(data) :
            /\ data[i].id = dealId
            /\ \A j \in 1..(i - 1) : data[j].id # dealId]

\* the context menu of a rendered row
HandleRowDuplicate(dealId) ==
    /\ ~crashed
    /\ dealId \in RowIds(VisibleRows)
    /\ Len(tableData) < MaxRecords
    /\ Len(dealId \o CopyInfix \o NumberToString(now)) <= MaxIdLength
    /\ tableData' = tableData \o <<DuplicateDeal(FindDeal(tableData, dealId), dealId, now)>>
    /\ announcementMessage' = MsgDuplicated
    /\ last' = Did("rowDuplicate")
    /\ UNCHANGED <<uiState, columnConfig, storage, storageDown, now, crashed>>

\* tableData of handleRowAction("delete")
RowDeleteResult(data, dealId) ==
    LET Keep(deal) == deal.id # dealId IN SelectSeq(data, Keep)

HandleRowDelete(dealId) ==
    /\ ~crashed
    /\ dealId \in RowIds(VisibleRows)
    /\ tableData' = RowDeleteResult(tableData, dealId)
    /\ announcementMessage' = MsgDealDeleted
    /\ last' = Did("rowDelete")
    /\ UNCHANGED <<uiState, columnConfig, storage, storageDown, now, crashed>>

---------------------------------------------------------------------------
(* Column descriptors *)

\* columnConfig of handleColumnAction("hide")
HideColumnResult(config, columnId) ==
    [i \in 1..Len(config) |->
        IF config[i].id = columnId THEN [config[i] EXCEPT !.visible = FALSE] ELSE config[i]]

\* the column menu of a rendered header; columnId: keyof Omit<Deal, 'id'>
HandleColumnHide(columnId) ==
    /\ ~crashed
    /\ columnId \in HeaderColumns \cap (DealFields \ {"id"})
    /\ columnConfig' = HideColumnResult(columnConfig, columnId)
    /\ announcementMessage' = MsgHidden \o ColumnIdText(columnId) \o MsgColumn
    /\ last' = Did("columnHide")
    /\ UNCHANGED <<tableData, uiState, storage, storageDown, now, crashed>>

\* the sort specification after handleColumnAction("sort", columnId, value):
\* with "asc" or "desc" the handler calls setSorts, an identifier the component
\* does not declare (the sort specification is uiState.sorts, set through
\* setUiState), so the call raises ReferenceError and the handler ends there;
\* with any other value the case does nothing
ColumnSortResult(currentSorts, columnId, value) == currentSorts

\* the announcement after handleColumnAction("sort", ...): the template of the
\* "Sorted by" message comes after the setSorts call and is never reached
ColumnSortAnnouncement(current, columnId, value) == current

\* the column menu's sort entries; columnId: keyof Omit<Deal, 'id'>
HandleColumnSort(columnId, value) ==
    /\ ~crashed
    /\ columnId \in HeaderColumns \cap (DealFields \ {"id"})
    /\ uiState' = [uiState EXCEPT !.sorts = ColumnSortResult(uiState.sorts, columnId, value)]
    /\ announcementMessage' = ColumnSortAnnouncement(announcementMessage, columnId, value)
    /\ last' = [op |-> "columnSort", run |-> 0, before |-> {}, beforePrevious |-> {},
                column |-> columnId, value |-> value]
    /\ UNCHANGED <<tableData, columnConfig, storage, storageDown, now, crashed>>

\* saveUIState(replacement) with an object for the updater: updater(prevState)
\* throws TypeError inside the state updater, outside the try / catch; the
\* render that would commit the queued updates fails
SaveUIStateReplacement ==
    /\ crashed' = TRUE
    /\ UNCHANGED <<tableData, uiState, columnConfig, storage, storageDown,
                   announcementMessage, now>>

\* ColumnManager's onColumnToggle: setColumnConfig, then saveUIState({...})
OnColumnToggle(columnId, visible) ==
    /\ ~crashed
    /\ columnId \in {columnConfig[i].id : i \in 1..Len(columnConfig)}
    /\ visible \in BOOLEAN
    /\ SaveUIStateReplacement
    /\ last' = Did("onColumnToggle")

\* ColumnManager's onColumnReorder: saveUIState({...}) inside the updater of
\* setColumnConfig
OnColumnReorder(fromIndex, toIndex) ==
    /\ ~crashed
    /\ fromIndex \in 1..Len(columnConfig)
    /\ toIndex \in 1..Len(columnConfig)
    /\ SaveUIStateReplacement
    /\ last' = Did("onColumnReorder")

---------------------------------------------------------------------------
(* The environment *)

\* time passes between two events
Tick ==
    /\ ~crashed
    /\ now < MaxClock
    /\ now' = now + 1
    /\ UNCHANGED <<tableData, uiState, columnConfig, storage, storageDown,
                   announcementMessage, crashed, last>>

\* localStorage becomes unavailable or full, or recovers
StorageFlip ==
    /\ ~crashed
    /\ storageDown' = ~storageDown
    /\ last' = Did("storageFlip")
    /\ UNCHANGED <<tableData, uiState, columnConfig, storage,
                   announcementMessage, now, crashed>>

---------------------------------------------------------------------------
(* Startup: the uiState initializer, the first render and the mount effect *)

\* the value JSON.parse gives for the text null
JsonNull == [null |-> TRUE]

\* if (savedState): null (key absent) and the empty string are falsy
Truthy(item) ==
    /\ item # Absent
    /\ ("raw" \in DOMAIN item => item.raw # <<>>)

\* JSON.parse: the value of a text JSON.stringify wrote, a SyntaxError on any
\* other text
JSONparse(item) ==
    IF "text" \in DOMAIN item
    THEN [threw |-> FALSE, value |-> item.text]
    ELSE [threw |-> TRUE, value |-> JsonNull]

\* the initializer without its try / catch: the SyntaxError leaves it
InitialUIStateUncaught(item) ==
    IF ~Truthy(item) THEN [state |-> DefaultUIState, escaped |-> FALSE]
    ELSE LET parsed == JSONparse(item)
         IN  [state |-> parsed.value, escaped |-> parsed.threw]

\* useState<UIState>(() => ...): the parsed blob when there is one and it
\* parses, whatever its shape; the default state otherwise
InitialUIState(item) ==
    IF ~Truthy(item) THEN [state |-> DefaultUIState, escaped |-> FALSE]
    ELSE LET parsed == JSONparse(item)
         IN  IF parsed.threw
             THEN [state |-> DefaultUIState, escaped |-> FALSE]
             ELSE [state |-> parsed.value, escaped |-> FALSE]

HasField(object, field) == object # JsonNull /\ field \in DOMAIN object

\* the filter callback reads a property of undefined or null: filters.search on
\* null, filters.stage.length, filters.owner.length, filters.dealValueRange[0]
FilterThrows(data, filters) ==
    \E i \in 1..Len(data) :
        LET deal == data[i]
            search == IF HasField(filters, "search") THEN filters.search ELSE <<>>
            searchLower == toLowerCase(search)
            passSearch ==
                \/ search = <<>>
                \/ \E field \in {deal.deal, deal.owner, deal.accounts, deal.contacts} :
                       includes(toLowerCase(field), searchLower)
            passStage ==
                ~(Len(filters.stage) > 0 /\ ~InSeq(deal.stage, filters.stage))
            passOwner ==
                ~(Len(filters.owner) > 0 /\ ~InSeq(deal.owner, filters.owner))
        IN  \/ filters = JsonNull
            \/ /\ passSearch
               /\ \/ ~HasField(filters, "stage")
                  \/ /\ passStage
                     /\ \/ ~HasField(filters, "owner")
                        \/ passOwner /\ ~HasField(filters, "dealValueRange")

\* the first render throws: destructuring null, or the filter callback (a
\* filters field that is absent takes the default of the destructuring)
RenderThrows(data, state) ==
    \/ state = JsonNull
    \/ LET filters == IF "filters" \in DOMAIN state THEN state.filters ELSE DefaultFilters
       IN  FilterThrows(data, filters)

\* the page is loaded again: the component mounts with the seed records, the
\* initializer reads the blob, the first render runs the pipeline, and if it
\* did not throw the mount effect writes the state back
Reload ==
    /\ LET item == storage[EffectKey]
           initial == InitialUIState(item)
           data == SubSeq(mockData, 1, NumSeed)
           throws == initial.escaped \/ RenderThrows(data, initial.state)
       IN  /\ tableData' = data
           /\ uiState' = initial.state
           /\ crashed' = throws
           /\ storage' = IF throws THEN storage ELSE PersistEffect(storage, initial.state)
           /\ last' = [op |-> "reload", run |-> 0, before |-> {}, beforePrevious |-> {},
                       loaded |-> item]
    /\ columnConfig' = DefaultColumnConfig
    /\ announcementMessage' = <<>>
    /\ UNCHANGED <<storageDown, now>>

\* the blob is changed from outside the component (another version of the page,
\* the browser's storage panel)
StorageEdit(item) ==
    /\ storage' = [storage EXCEPT ![EffectKey] = item]
    /\ last' = Did("storageEdit")
    /\ UNCHANGED <<tableData, uiState, columnConfig, storageDown,
                   announcementMessage, now, crashed>>

---------------------------------------------------------------------------
(* The action dispatchers: optional arguments and messages *)

\* an optional string argument: value?: string
NoValue == [given |-> FALSE, text |-> <<>>]
Value(text) == [given |-> TRUE, text |-> text]

\* if (value): undefined and the empty string are falsy
ValueTruthy(value) == value.given /\ value.text # <<>>

\* `${value}` of an optional string
ValueText(value) == IF value.given THEN value.text ELSE <<"u","n","d","e","f","i","n","e","d">>

\* `${n} deal${n !== 1 ? 's' : ''}`
CountOfDeals(n) == NumberToString(n) \o MsgDeal \o (IF n # 1 THEN MsgPlural ELSE <<>>)

MsgArchived == <<"A","r","c","h","i","v","e","d"," ">>
MsgChanged == <<"C","h","a","n","g","e","d"," ">>
MsgAssigned == <<"A","s","s","i","g","n","e","d"," ">>
MsgTo == <<" ","t","o"," ">>
MsgPreparingEmailFor == <<"P","r","e","p","a","r","i","n","g"," ","e","m","a","i","l"," ","f","o","r"," ">>

\* stageMap and ownerMap of handleBulkAction
stageMap == {
     [code |-> <<"d","i","s","c","o","v","e","r","y">>,
      display |-> StageDiscovery],
     [code |-> <<"p","r","o","p","o","s","a","l">>,
      display |-> StageProposal],
     [code |-> <<"n","e","g","o","t","i","a","t","i","o","n">>,
      display |-> StageNegotiation],
     [code |-> <<"c","l","o","s","e","d","-","w","o","n">>,
      display |-> StageClosedWon],
     [code |-> <<"c","l","o","s","e","d","-","l","o","s","t">>,
      display |-> StageClosedLost]}

ownerMap == {
     [code |-> <<"a","l","e","x","-","c","h","e","n">>,
      display |-> <<"A","l","e","x"," ","C","h","e","n">>],
     [code |-> <<"s","a","m","-","w","i","l","s","o","n">>,
      display |-> <<"S","a","m"," ","W","i","l","s","o","n">>],
     [code |-> <<"e","m","m","a","-","b","r","o","w","n">>,
      display |-> <<"E","m","m","a"," ","B","r","o","w","n">>],
     [code |-> <<"j","a","m","e","s","-","l","i","u">>,
      display |-> <<"J","a","m","e","s"," ","L","i","u">>],
     [code |-> <<"c","h","r","i","s","-","t","a","y","l","o","r">>,
      display |-> <<"C","h","r","i","s"," ","T","a","y","l","o","r">>]}

\* map[value] || value (every display value of the two tables is non-empty)
Lookup(map, code) ==
    IF \E entry \in map : entry.code = code
    THEN (CHOOSE entry \in map : entry.code = code).display
    ELSE code

\* tableData of handleBulkAction("changeStage" / "changeOwner", value)
BulkChangeResult(data, rowSelection, field, display) ==
    [i \in 1..Len(data) |->
        IF data[i].id \in BulkSelectedRowIds(rowSelection)
        THEN [data[i] EXCEPT ![field] = display]
        ELSE data[i]]

\* handleBulkAction("changeStage", value) and handleBulkAction("changeOwner", value)
HandleBulkChange(action, value) ==
    /\ ~crashed
    /\ action \in {"changeStage", "changeOwner"}
    /\ LET n == Cardinality(BulkSelectedRowIds(uiState.rowSelection))
           display == IF action = "changeStage"
                      THEN Lookup(stageMap, value.text)
                      ELSE Lookup(ownerMap, value.text)
           field == IF action = "changeStage" THEN "stage" ELSE "owner"
       IN  IF ValueTruthy(value)
           THEN /\ tableData' = BulkChangeResult(tableData, uiState.rowSelection, field, display)
                /\ announcementMessage' =
                       (IF action = "changeStage" THEN MsgChanged ELSE MsgAssigned)
                           \o CountOfDeals(n) \o MsgTo \o display
           ELSE UNCHANGED <<tableData, announcementMessage>>
    /\ last' = [op |-> "bulkChange", run |-> 0, before |-> {}, beforePrevious |-> {},
                action |-> action, value |-> value]
    /\ UNCHANGED <<uiState, columnConfig, storage, storageDown, now, crashed>>

\* handleBulkAction("archive") and handleBulkAction("email")
HandleBulkNotice(action) ==
    /\ ~crashed
    /\ action \in {"archive", "email"}
    /\ LET n == Cardinality(BulkSelectedRowIds(uiState.rowSelection))
       IN  announcementMessage' =
               (IF action = "archive" THEN MsgArchived ELSE MsgPreparingEmailFor)
                   \o CountOfDeals(n)
    /\ last' = [op |-> "bulkNotice", run |-> 0, before |-> {}, beforePrevious |-> {},
                action |-> action, value |-> NoValue]
    /\ UNCHANGED <<tableData, uiState, columnConfig, storage, storageDown, now, crashed>>

---------------------------------------------------------------------------
(* handleRowAction, for any id *)

MsgEditing == <<"E","d","i","t","i","n","g"," ","d","e","a","l">>
MsgOwnerChangedTo == <<"D","e","a","l"," ","o","w","n","e","r"," ","c","h","a","n","g","e","d"," ","t","o"," ">>
MsgStageChangedTo == <<"D","e","a","l"," ","s","t","a","g","e"," ","c","h","a","n","g","e","d"," ","t","o"," ">>
MsgEmailForDeal == <<"P","r","e","p","a","r","i","n","g"," ","e","m","a","i","l"," ","f","o","r"," ","d","e","a","l">>
MsgCallForDeal == <<"S","c","h","e","d","u","l","i","n","g"," ","c","a","l","l"," ","f","o","r"," ","d","e","a","l">>
MsgMeetingForDeal == <<"S","c","h","e","d","u","l","i","n","g"," ","m","e","e","t","i","n","g"," ","f","o","r"," ","d","e","a","l">>
MsgDealArchived == <<"D","e","a","l"," ","a","r","c","h","i","v","e","d">>

RowActions ==
    {"edit", "duplicate", "changeOwner", "changeStage", "email", "call", "meeting",
     "archive", "delete"}

\* prev.map(deal => deal.id === dealId ? { ...deal, [field]: value } : deal)
RowChangeResult(data, dealId, field, text) ==
    [i \in 1..Len(data) |->
        IF data[i].id = dealId THEN [data[i] EXCEPT ![field] = text] ELSE data[i]]

\* the duplicate case throwing when tableData.find gives undefined
RowActionThrowsOnMissing(data, action, dealId) ==
    action = "duplicate" /\ dealId \notin RowIds(data)

\* no case of the switch throws: find gives undefined and the case is skipped,
\* map and filter run over the records whatever the id
RowActionThrows(data, action, dealId) == FALSE

\* tableData after handleRowAction(action, dealId, value)
RowActionResult(data, action, dealId, value, dateNow) ==
    CASE action = "duplicate" ->
             IF dealId \in RowIds(data)
             THEN data \o <<DuplicateDeal(FindDeal(data, dealId), dealId, dateNow)>>
             ELSE data
      [] action = "changeOwner" ->
             IF ValueTruthy(value) THEN RowChangeResult(data, dealId, "owner", value.text)
             ELSE data
      [] action = "changeStage" ->
             IF ValueTruthy(value) THEN RowChangeResult(data, dealId, "stage", value.text)
             ELSE data
      [] action = "delete" -> RowDeleteResult(data, dealId)
      [] OTHER -> data

\* the announcement after handleRowAction(action, dealId, value)
RowActionAnnouncement(current, data, action, dealId, value) ==
    CASE action = "edit" -> MsgEditing
      [] action = "duplicate" -> IF dealId \in RowIds(data) THEN MsgDuplicated ELSE current
      [] action = "changeOwner" ->
             IF ValueTruthy(value) THEN MsgOwnerChangedTo \o value.text ELSE current
      [] action = "changeStage" ->
             IF ValueTruthy(value) THEN MsgStageChangedTo \o value.text ELSE current
      [] action = "email" -> MsgEmailForDeal
      [] action = "call" -> MsgCallForDeal
      [] action = "meeting" -> MsgMeetingForDeal
      [] action = "archive" -> MsgDealArchived
      [] action = "delete" -> MsgDealDeleted

\* handleRowAction called with any id, in the store or not
HandleRowAction(action, dealId, value) ==
    /\ ~crashed
    /\ action \in RowActions
    /\ LET newData == RowActionResult(tableData, action, dealId, value, now)
       IN  /\ Len(newData) <= MaxRecords
           /\ \A i \in 1..Len(newData) : Len(newData[i].id) <= MaxIdLength
           /\ IF RowActionThrows(tableData, action, dealId)
              THEN /\ crashed' = TRUE
                   /\ UNCHANGED <<tableData, announcementMessage>>
              ELSE /\ crashed' = FALSE
                   /\ tableData' = newData
                   /\ announcementMessage' =
                          RowActionAnnouncement(announcementMessage, tableData,
                                                action, dealId, value)
    /\ last' = [op |-> "rowAction", run |-> 0, before |-> {}, beforePrevious |-> {},
                action |-> action, dealId |-> dealId, value |-> value]
    /\ UNCHANGED <<uiState, columnConfig, storage, storageDown, now>>

---------------------------------------------------------------------------
(* handleColumnAction: filter, pin, move, resize *)

MsgFilteringBy == <<"F","i","l","t","e","r","i","n","g"," ","b","y"," ">>
MsgColumnPinned == <<" ","c","o","l","u","m","n"," ","p","i","n","n","e","d">>
MsgMoved == <<"M","o","v","e","d"," ">>
MsgAutoResized == <<"A","u","t","o","-","r","e","s","i","z","e","d"," ">>
MsgSpace == <<" ">>
TextAuto == <<"a","u","t","o">>
TextFit == <<"f","i","t">>

\* the announcement after handleColumnAction(action, columnId, value) for the
\* cases that only announce
ColumnNoticeAnnouncement(current, action, columnId, value) ==
    CASE action = "filter" -> MsgFilteringBy \o ColumnIdText(columnId)
      [] action = "pin" -> ColumnIdText(columnId) \o MsgColumnPinned
      [] action = "move" ->
             MsgMoved \o ColumnIdText(columnId) \o MsgColumn \o MsgSpace \o ValueText(value)
      [] action = "resize" ->
             IF value.given /\ value.text \in {TextAuto, TextFit}
             THEN MsgAutoResized \o ColumnIdText(columnId) \o MsgColumn
             ELSE current

HandleColumnNotice(action, columnId, value) ==
    /\ ~crashed
    /\ action \in {"filter", "pin", "move", "resize"}
    /\ columnId \in HeaderColumns \cap (DealFields \ {"id"})
    /\ announcementMessage' =
           ColumnNoticeAnnouncement(announcementMessage, action, columnId, value)
    /\ last' = [op |-> "columnNotice", run |-> 0, before |-> {}, beforePrevious |-> {},
                action |-> action, column |-> columnId, value |-> value]
    /\ UNCHANGED <<tableData, uiState, columnConfig, storage, storageDown, now, crashed>>

---------------------------------------------------------------------------
(* Inputs *)

AllColumnIds == {DefaultColumnConfig[i].id : i \in 1..Len(DefaultColumnConfig)}

StrAB == <<"A","B">>
Strab == <<"a","b">>
StrB == <<"B">>
Strb == <<"b">>
Stra == <<"a">>
StrBa == <<"B","a">>
StrALEX == <<"A","L","E","X">>
Strsmith == <<"s","m","i","t","h">>
Strzz == <<"z","z">>
Strproposal == <<"p","r","o","p","o","s","a","l">>
StrAlexChen == <<"A","l","e","x"," ","C","h","e","n">>

\* two records as inline edits can leave them: short texts in mixed case,
\* values on the ends of the default range
EditedDeal6 ==
    [id |-> <<"6">>, deal |-> Strab, activitiesTimeline |-> <<>>, stage |-> Strproposal,
     dealValue |-> 100000, contacts |-> StrB, owner |-> StrALEX, accounts |-> StrBa,
     expectedClose |-> mockData[1].expectedClose, forecastValue |-> 100000]

EditedDeal7 ==
    [id |-> <<"7">>, deal |-> StrB, activitiesTimeline |-> <<>>, stage |-> StageNegotiation,
     dealValue |-> 200000, contacts |-> Stra, owner |-> StrAlexChen, accounts |-> StrAB,
     expectedClose |-> mockData[2].expectedClose, forecastValue |-> 0]

DealCatalog == {mockData[1], mockData[2], EditedDeal6, EditedDeal7}

\* the record lists given to the pipeline: mockData, and every list of at most
\* MaxRows different catalog records
PipelineInputs ==
    {mockData} \cup
    {data \in UNION {[1..n -> DealCatalog] : n \in 0..MaxRows} :
        \A i, j \in 1..Len(data) : i # j => data[i] # data[j]}

SearchInputs == {<<>>, StrAB, Strb, Strsmith, StrALEX, Strzz}
StageInputs == {<<>>, <<StageProposal>>, <<StageProposal, StageNegotiation>>}
OwnerInputs == {<<>>, <<StrAlexChen>>}
RangeInputs == {<<0, 200000>>, <<100000, 200000>>, <<45001, 124999>>}

FilterInputs ==
    {[search |-> se, stage |-> st, owner |-> ow, dealValueRange |-> ra] :
        se \in SearchInputs, st \in StageInputs, ow \in OwnerInputs, ra \in RangeInputs}

\* the filters the row handlers are exercised under
RowFilterInputs == {[DefaultFilters EXCEPT !.stage = <<StageProposal>>]}

\* view states as a blob can hold them: one saved by a session that sorted and
\* filtered, and three that parse but are not a UIState
SavedSortedState ==
    [DefaultUIState EXCEPT
        !.sorts = <<[column |-> "stage", direction |-> "desc"]>>,
        !.filters = [DefaultFilters EXCEPT !.stage = <<StageProposal>>]]

StateFiltersWithoutStage ==
    [DefaultUIState EXCEPT
        !.filters = [search |-> <<>>, owner |-> <<>>, dealValueRange |-> <<0, 200000>>]]

StateFiltersNull == [DefaultUIState EXCEPT !.filters = JsonNull]

\* what the key can hold at startup: nothing, the empty string, text that is
\* not JSON, and JSON text of the values above
StoredItems ==
    {Absent,
     [raw |-> <<>>],
     [raw |-> <<"{","o","o","p","s">>],
     [raw |-> <<"u","n","d","e","f","i","n","e","d">>],
     JSONstringify(JsonNull),
     JSONstringify(StateFiltersWithoutStage),
     JSONstringify(StateFiltersNull),
     JSONstringify(SavedSortedState)}

---------------------------------------------------------------------------
(* Specifications *)

\* an event of a session of any length
Uncounted(Handler) == Handler /\ UNCHANGED events

\* an event of a session of at most MaxEvents events
Counted(Handler) ==
    /\ events < MaxEvents
    /\ Handler
    /\ events' = events + 1

InitPipeline ==
    /\ tableData \in PipelineInputs
    /\ InitView

\* the filter stage of the pipeline, over record lists and filter criteria
NextFilter ==
    \/ \E newFilters \in FilterInputs : Uncounted(OnFiltersChange(newFilters))
    \/ Uncounted(OnClearFilters)

SpecFilter == InitPipeline /\ [][NextFilter]_vars

\* the sort stage of the pipeline and the header clicks that build its
\* specification
NextSorting ==
    \E columnId \in AllColumnIds : Uncounted(HandleSort(columnId))

SpecSorting == InitPipeline /\ [][NextSorting]_vars

\* selection of rows, and the deletions that act on it
NextSelection ==
    \/ \E rowId \in RowIds(tableData) : Uncounted(HandleSelectRow(rowId))
    \/ \E rowId \in RowIds(tableData) : Uncounted(SelectCheckboxChange(rowId))
    \/ Uncounted(HandleSelectAll)
    \/ Uncounted(HandleBulkDelete)
    \/ \E rowId \in RowIds(tableData) : Uncounted(HandleRowDelete(rowId))
    \/ \E newFilters \in RowFilterInputs : Uncounted(OnFiltersChange(newFilters))
    \/ Uncounted(OnClearFilters)

SpecSelection == Init /\ [][NextSelection]_vars

\* the record store under duplication and deletion
NextRecords ==
    \/ \E rowId \in RowIds(tableData) : Uncounted(HandleRowDuplicate(rowId))
    \/ \E rowId \in RowIds(tableData) : Uncounted(HandleRowDelete(rowId))
    \/ Uncounted(Tick)

SpecRecords == Init /\ [][NextRecords]_vars

\* the column descriptors
NextColumns ==
    \/ \E columnId \in AllColumnIds : Uncounted(HandleColumnHide(columnId))
    \/ \E columnId \in AllColumnIds, visible \in BOOLEAN : Uncounted(OnColumnToggle(columnId, visible))
    \/ \E fromIndex, toIndex \in 1..Len(DefaultColumnConfig) :
           Uncounted(OnColumnReorder(fromIndex, toIndex))

SpecColumns == Init /\ [][NextColumns]_vars

\* the inputs the view-state updates are exercised with under storage failures
PersistRowIds == {mockData[1].id}
PersistColumnIds == {"stage"}
PersistWidths == {120}

\* every kind of view-state update, with localStorage failing and recovering
NextPersist ==
    \/ \E columnId \in PersistColumnIds : Counted(HandleSort(columnId))
    \/ \E rowId \in PersistRowIds : Counted(HandleSelectRow(rowId))
    \/ \E rowId \in PersistRowIds : Counted(SelectCheckboxChange(rowId))
    \/ Counted(HandleSelectAll)
    \/ \E rowId \in PersistRowIds : Counted(ToggleRowExpansion(rowId))
    \/ \E columnId \in PersistColumnIds, width \in PersistWidths :
           Counted(HandleColumnResize(columnId, width))
    \/ \E newFilters \in RowFilterInputs : Counted(OnFiltersChange(newFilters))
    \/ Counted(OnClearFilters)
    \/ Counted(HandleBulkDelete)
    \/ Counted(StorageFlip)

SpecPersist == Init /\ [][NextPersist]_vars

\* the coded values the bulk changes are given: one in stageMap, one in
\* ownerMap (each is a raw value for the other table), and none
BulkValues == {NoValue, Value(<<"p","r","o","p","o","s","a","l">>), Value(<<"s","a","m","-","w","i","l","s","o","n">>)}

\* selections and the bulk actions on them
NextBulk ==
    \/ \E rowId \in RowIds(tableData) : Uncounted(HandleSelectRow(rowId))
    \/ \E action \in {"changeStage", "changeOwner"}, value \in BulkValues :
           Uncounted(HandleBulkChange(action, value))
    \/ \E action \in {"archive", "email"} : Uncounted(HandleBulkNotice(action))

SpecBulk == Init /\ [][NextBulk]_vars

\* the headers dragged and the widths the drag ends on
ResizeColumnIds == {"select", "deal", "stage"}
ResizeWidths == {120, 40, 39, 0, -5}

\* column resizes
NextWidths ==
    \E columnId \in ResizeColumnIds, width \in ResizeWidths :
        Uncounted(HandleColumnResize(columnId, width))

SpecWidths == Init /\ [][NextWidths]_vars

\* filters that leave all, some and none of the records visible
TotalsFilterInputs ==
    {DefaultFilters,
     [DefaultFilters EXCEPT !.stage = <<StageClosedWon, StageProposal>>],
     [DefaultFilters EXCEPT !.search = Strzz],
     [DefaultFilters EXCEPT !.dealValueRange = <<45001, 124999>>]}

\* the rows selected and deselected: a mock record, a won one, an edited one
TotalsRowIds == {mockData[1].id, mockData[4].id, EditedDeal6.id}

\* the totals over record lists, filters and selections
NextTotals ==
    \/ \E newFilters \in TotalsFilterInputs : Uncounted(OnFiltersChange(newFilters))
    \/ \E rowId \in TotalsRowIds \cap RowIds(VisibleRows) : Uncounted(HandleSelectRow(rowId))
    \/ \E columnId \in {"dealValue"} : Uncounted(HandleSort(columnId))

SpecTotals == InitPipeline /\ [][NextTotals]_vars

\* the columns and values the sort menu and the header clicks are exercised with
SortMenuColumns == {"stage", "dealValue"}
SortMenuValues == {"asc", "desc", "none"}
SortHeaderColumns == {"select", "stage", "dealValue"}

\* the ids the row actions are given: the first seed record's, which a delete
\* removes from the store, and one that was never in it
RowActionIds == {mockData[1].id, <<"9">>}
RowActionValues == {NoValue, Value(<<"S","a","m"," ","W","i","l","s","o","n">>)}

\* row actions on ids in and out of the store, with a selection in the view
\* state
NextRowActions ==
    \/ \E action \in RowActions, dealId \in RowActionIds, value \in RowActionValues :
           Uncounted(HandleRowAction(action, dealId, value))
    \/ \E rowId \in RowActionIds \cap RowIds(tableData) : Uncounted(HandleSelectRow(rowId))

SpecRowActions == Init /\ [][NextRowActions]_vars

ColumnNoticeValues == {NoValue, Value(TextAuto), Value(<<"l","e","f","t">>)}

\* the three dispatchers, in sessions of bounded length
NextDispatch ==
    \/ \E action \in RowActions, dealId \in RowActionIds, value \in RowActionValues :
           Counted(HandleRowAction(action, dealId, value))
    \/ \E action \in {"filter", "pin", "move", "resize"}, value \in ColumnNoticeValues :
           Counted(HandleColumnNotice(action, "stage", value))
    \/ \E value \in SortMenuValues : Counted(HandleColumnSort("stage", value))
    \/ Counted(HandleColumnHide("stage"))
    \/ \E rowId \in RowIds(tableData) : Counted(HandleSelectRow(rowId))
    \/ \E action \in {"changeStage", "changeOwner"}, value \in BulkValues :
           Counted(HandleBulkChange(action, value))
    \/ \E action \in {"archive", "email"} : Counted(HandleBulkNotice(action))
    \/ Counted(HandleBulkDelete)

SpecDispatch == Init /\ [][NextDispatch]_vars

\* header clicks, sort entries of the column menu and filter changes, in
\* sessions of bounded length
NextSortMenu ==
    \/ \E columnId \in SortHeaderColumns : Counted(HandleSort(columnId))
    \/ \E columnId \in SortMenuColumns, value \in SortMenuValues :
           Counted(HandleColumnSort(columnId, value))
    \/ \E newFilters \in RowFilterInputs : Counted(OnFiltersChange(newFilters))
    \/ Counted(OnClearFilters)

SpecSortMenu == Init /\ [][NextSortMenu]_vars

\* sessions ended by a reload, with the blob edited from outside in between
NextStartup ==
    \/ Counted(Reload)
    \/ \E item \in StoredItems : Counted(StorageEdit(item))
    \/ \E columnId \in PersistColumnIds : Counted(HandleSort(columnId))
    \/ \E rowId \in PersistRowIds : Counted(HandleSelectRow(rowId))
    \/ \E newFilters \in RowFilterInputs : Counted(OnFiltersChange(newFilters))
    \/ Counted(StorageFlip)

SpecStartup == Init /\ [][NextStartup]_vars

\* rows expanded and collapsed, under filters that hide some of them
NextExpansion ==
    \/ \E rowId \in RowIds(tableData) : Uncounted(ToggleRowExpansion(rowId))
    \/ \E newFilters \in TotalsFilterInputs : Uncounted(OnFiltersChange(newFilters))
    \/ Uncounted(OnClearFilters)

SpecExpansion == Init /\ [][NextExpansion]_vars

\* sessions of view-state updates ended by a reload, localStorage working
\* throughout
NextRoundTrip ==
    \/ \E columnId \in PersistColumnIds : Counted(HandleSort(columnId))
    \/ \E rowId \in PersistRowIds : Counted(HandleSelectRow(rowId))
    \/ \E rowId \in PersistRowIds : Counted(ToggleRowExpansion(rowId))
    \/ \E columnId \in PersistColumnIds, width \in PersistWidths :
           Counted(HandleColumnResize(columnId, width))
    \/ \E newFilters \in RowFilterInputs : Counted(OnFiltersChange(newFilters))
    \/ \E columnId \in PersistColumnIds : Counted(HandleColumnHide(columnId))
    \/ Counted(Reload)

SpecRoundTrip == Init /\ [][NextRoundTrip]_vars

---------------------------------------------------------------------------
(* The filter stage *)

IsLetter(c) == Code(c) \in (65..90) \cup (97..122)

\* the same character, or the same letter in the other case
SameLetter(x, y) ==
    \/ x = y
    \/ /\ IsLetter(x)
       /\ IsLetter(y)
       /\ (Code(x) - Code(y) = 32 \/ Code(y) - Code(x) = 32)

CaseInsensitiveSubstring(needle, text) ==
    \E i \in 0..(Len(text) - Len(needle)) :
        \A k \in 1..Len(needle) : SameLetter(needle[k], text[i + k])

\* the four conditions of the filter, as the specification words them
MeetsCriteria(deal, filters) ==
    /\ \/ Len(filters.search) = 0
       \/ CaseInsensitiveSubstring(filters.search, deal.deal)
       \/ CaseInsensitiveSubstring(filters.search, deal.owner)
       \/ CaseInsensitiveSubstring(filters.search, deal.accounts)
       \/ CaseInsensitiveSubstring(filters.search, deal.contacts)
    /\ (Len(filters.stage) = 0 \/ \E i \in 1..Len(filters.stage) : filters.stage[i] = deal.stage)
    /\ (Len(filters.owner) = 0 \/ \E i \in 1..Len(filters.owner) : filters.owner[i] = deal.owner)
    /\ filters.dealValueRange[1] <= deal.dealValue
    /\ deal.dealValue <= filters.dealValueRange[2]

\* C1: the filtered output holds exactly the records of the store that meet
\* the four criteria (search empty or a case-insensitive substring of title,
\* owner, account or contacts; stage set empty or holding the stage; owner set
\* empty or holding the owner; value in the inclusive range), in store order.
C1_FilterKeepsExactlyMatches ==
    LET out == filteredData(tableData, uiState.filters)
        matching == {i \in 1..Len(tableData) : MeetsCriteria(tableData[i], uiState.filters)}
    IN  /\ Len(out) = Cardinality(matching)
        /\ \A i \in matching :
               out[Cardinality({j \in matching : j <= i})] = tableData[i]

\* the example of the specification: of records 1 and 2 the range
\* [100000, 200000] keeps record 1 only
C1_Witness ==
    /\ last.op = "onFiltersChange"
    /\ tableData = <<mockData[1], mockData[2]>>
    /\ uiState.filters = [DefaultFilters EXCEPT !.dealValueRange = <<100000, 200000>>]
    /\ filteredData(tableData, uiState.filters) = <<mockData[1]>>

---------------------------------------------------------------------------
(* The sort stage *)

\* the code unit of a character with upper-case letters folded onto lower case
FoldedCode(c) == IF Code(c) \in 65..90 THEN Code(c) + 32 ELSE Code(c)

\* s before t, letter case ignored
CaseInsensitiveBefore(s, t) ==
    \E k \in 1..(Len(s) + 1) :
        /\ k <= Len(t)
        /\ \A j \in 1..(k - 1) : FoldedCode(s[j]) = FoldedCode(t[j])
        /\ (k = Len(s) + 1 \/ FoldedCode(s[k]) < FoldedCode(t[k]))

\* record a comes strictly before record b on one key of the specification
KeyBefore(a, b, key) ==
    LET Before(x, y) ==
            IF key.column \notin DealFields THEN FALSE
            ELSE IF key.column \in NumberFields THEN x[key.column] < y[key.column]
            ELSE CaseInsensitiveBefore(x[key.column], y[key.column])
    IN  IF key.direction = "asc" THEN Before(a, b) ELSE Before(b, a)

KeyTie(a, b, key) == ~KeyBefore(a, b, key) /\ ~KeyBefore(b, a, key)

\* lexicographic order by the keys in specification order
SpecBefore(a, b, sorts) ==
    \E n \in 1..Len(sorts) :
        /\ \A m \in 1..(n - 1) : KeyTie(a, b, sorts[m])
        /\ KeyBefore(a, b, sorts[n])

PositionIn(list, deal) == CHOOSE i \in 1..Len(list) : list[i] = deal

\* C2: under a non-empty sort specification the sorted output is a permutation
\* of the filtered list, ordered lexicographically by the keys in specification
\* order (each in its direction, strings compared without regard to case), and
\* records that tie on every key keep their order from the filtered list; the
\* five mock records sorted by dealValue descending read 125000, 95000, 85000,
\* 65000, 45000.
C2_SortIsStableLexicographic ==
    LET filtered == filteredData(tableData, uiState.filters)
        out == sortedData(filtered, uiState.sorts)
    IN  Len(uiState.sorts) > 0 =>
            /\ Len(out) = Len(filtered)
            /\ \A i \in 1..Len(filtered) : \E k \in 1..Len(out) : out[k] = filtered[i]
            /\ \A k, l \in 1..Len(out) :
                   k < l =>
                       /\ ~SpecBefore(out[l], out[k], uiState.sorts)
                       /\ (~SpecBefore(out[k], out[l], uiState.sorts)
                              => PositionIn(filtered, out[k]) < PositionIn(filtered, out[l]))
            /\ (/\ tableData = mockData
                /\ uiState.sorts = <<[column |-> "dealValue", direction |-> "desc"]>>)
                   => [k \in 1..Len(out) |-> out[k].dealValue]
                          = <<125000, 95000, 85000, 65000, 45000>>

\* two keys, the first one descending; records 1 and 6 tie on it without regard
\* to case and the second key decides
C2_Witness ==
    /\ last.op = "handleSort"
    /\ tableData = <<mockData[1], EditedDeal6>>
    /\ uiState.sorts = <<[column |-> "stage", direction |-> "desc"],
                         [column |-> "deal", direction |-> "asc"]>>
    /\ VisibleRows = <<EditedDeal6, mockData[1]>>

\* the header click, as the specification words it
ClickEffect(before, after, column) ==
    LET Other(s) == s.column # column
        at == {i \in 1..Len(before) : before[i].column = column}
    IN  /\ SelectSeq(after, Other) = SelectSeq(before, Other)
        /\ IF at = {}
           THEN /\ Len(after) = Len(before) + 1
                /\ after[Len(after)] = [column |-> column, direction |-> "asc"]
           ELSE \A i \in at :
                    IF before[i].direction = "asc"
                    THEN /\ Len(after) = Len(before)
                         /\ after[i] = [column |-> column, direction |-> "desc"]
                    ELSE /\ Len(after) = Len(before) - 1
                         /\ \A j \in 1..Len(after) : after[j].column # column

\* C3: a header click on column c adds c as the last entry, ascending, when c
\* is absent; turns c descending in place when it is ascending; removes c when
\* it is descending; the entries of the other columns keep direction and order.
C3_HeaderClickCycle ==
    [][\A columnId \in AllColumnIds :
           HandleSort(columnId) => ClickEffect(uiState.sorts, uiState'.sorts, columnId)]_vars

C3_Witness ==
    /\ last.op = "handleSort"
    /\ uiState.sorts = <<[column |-> "stage", direction |-> "desc"],
                         [column |-> "owner", direction |-> "asc"]>>

---------------------------------------------------------------------------
(* Select-all *)

\* C4: select-all on the visible rows V: when every row of V was selected, no
\* row of V is selected afterwards; otherwise every row of V is selected
\* afterwards.
C4_SelectAllToggles ==
    [][HandleSelectAll =>
           LET visible == RowIds(VisibleRows)
           IN  IF visible \subseteq SelectedIds(uiState.rowSelection)
               THEN visible \cap SelectedIds(uiState'.rowSelection) = {}
               ELSE visible \subseteq SelectedIds(uiState'.rowSelection)]_vars

\* select-all under a filter that hides a record has selected the visible rows
C4_Witness ==
    /\ last.op = "handleSelectAll"
    /\ Len(VisibleRows) < Len(tableData)
    /\ RowIds(VisibleRows) # {}
    /\ RowIds(VisibleRows) \subseteq SelectedIds(uiState.rowSelection)

---------------------------------------------------------------------------
(* Bulk delete *)

\* C6: bulk delete with N selected ids removes exactly the records whose ids
\* are selected, the record count goes down by N, and none of those ids is
\* selected afterwards.
C6_BulkDeleteRemovesSelected ==
    [][HandleBulkDelete =>
           LET selected == SelectedIds(uiState.rowSelection)
               Unselected(deal) == deal.id \notin selected
           IN  /\ tableData' = SelectSeq(tableData, Unselected)
               /\ Len(tableData') = Len(tableData) - Cardinality(selected)
               /\ selected \cap SelectedIds(uiState'.rowSelection) = {}]_vars

---------------------------------------------------------------------------
(* Duplicate *)

\* C7: duplicating a record of the store appends one record: the store grows
\* by one, the new title is the source title followed by " (Copy)", every
\* field but id and title equals the source's, and the records already there
\* are unchanged and in place.
C7_DuplicateAppendsCopy ==
    [][\A dealId \in RowIds(tableData) :
           HandleRowDuplicate(dealId) =>
               LET n == Len(tableData)
                   first == CHOOSE i \in 1..n :
                                /\ tableData[i].id = dealId
                                /\ \A j \in 1..(i - 1) : tableData[j].id # dealId
                   source == tableData[first]
               IN  /\ Len(tableData') = n + 1
                   /\ SubSeq(tableData', 1, n) = tableData
                   /\ tableData'[n + 1].deal = source.deal \o CopySuffix
                   /\ \A f \in DealFields \ {"id", "deal"} :
                          tableData'[n + 1][f] = source[f]]_vars

C7_Witness ==
    /\ last.op = "rowDuplicate"
    /\ Len(tableData) = NumSeed + 1
    /\ tableData[NumSeed + 1].deal = mockData[1].deal \o CopySuffix
    /\ tableData[NumSeed + 1].owner = mockData[1].owner

\* C8: no two records of the store have the same id.
C8_IdsUnique ==
    \A i, j \in 1..Len(tableData) : i # j => tableData[i].id # tableData[j].id

---------------------------------------------------------------------------
(* Locked columns *)

\* C9: every locked column descriptor is visible and stays at its position in
\* the descriptor sequence.
C9_LockedVisibleInPlace ==
    \A i \in 1..Len(DefaultColumnConfig) :
        DefaultColumnConfig[i].locked =>
            /\ i <= Len(columnConfig)
            /\ columnConfig[i].id = DefaultColumnConfig[i].id
            /\ columnConfig[i].locked
            /\ columnConfig[i].visible

---------------------------------------------------------------------------
(* Persistence of the view state *)

ViewStateUpdates ==
    {"handleSort", "handleSelectRow", "selectCheckbox", "handleSelectAll",
     "toggleRowExpansion", "handleColumnResize", "onFiltersChange", "onClearFilters",
     "bulkDelete"}

\* C10: after a view-state update (sort toggle, row selection, select-all,
\* expansion toggle, column resize, filter change, bulk delete) whose storage
\* write did not fail, the blob persisted under the key of the persist effect
\* is the current view state.
C10_UpdateIsPersisted ==
    (last.op \in ViewStateUpdates /\ ~storageDown)
        => storage[EffectKey] = JSONstringify(uiState)

\* a sort toggle made after a failed write: the effect has brought the blob up
\* to date, and saveUIState's own slot was never written
C10_Witness ==
    /\ last.op = "handleSort"
    /\ ~storageDown
    /\ Len(uiState.sorts) = 1
    /\ SelectedIds(uiState.rowSelection) # {}
    /\ storage[EffectKey] = JSONstringify(uiState)
    /\ storage[SaveKey] = Absent

---------------------------------------------------------------------------
(* The sort specification under clicks and menu actions *)

\* C13: whenever the sort specification is empty, after any header clicks and
\* column sort actions, the rows displayed are the records of the store that
\* meet the filter criteria, in store order; and the store itself is in the
\* order it was loaded in.
C13_EmptySortShowsStoreOrder ==
    LET Meets(deal) == MeetsCriteria(deal, uiState.filters)
    IN  /\ tableData = SubSeq(mockData, 1, NumSeed)
        /\ uiState.sorts = <<>> => VisibleRows = SelectSeq(tableData, Meets)

\* a header click has removed the last sort key, after a sort that had put the
\* second record first
C13_Witness ==
    /\ last.op = "handleSort"
    /\ uiState.sorts = <<>>
    /\ Len(tableData) >= 2
    /\ VisibleRows = tableData
    /\ sortedData(tableData, <<[column |-> "dealValue", direction |-> "asc"]>>)[1]
           = tableData[2]

\* C14: the column action sort on column c with value asc or desc leaves the
\* sort specification holding the single entry (c, value); with any other
\* value it leaves the sort specification as it was.
C14_ColumnSortReplaces ==
    [][\A columnId \in SortMenuColumns, value \in SortMenuValues :
           HandleColumnSort(columnId, value) =>
               uiState'.sorts =
                   IF value \in {"asc", "desc"}
                   THEN <<[column |-> columnId, direction |-> value]>>
                   ELSE uiState.sorts]_vars

---------------------------------------------------------------------------
(* Bulk changes *)

\* C15: bulk change-stage (change-owner) with a coded value sets the stage
\* (owner) of exactly the selected records to the table's display value for
\* it, or to the value itself when the table has no entry for it; the
\* unselected records, the other fields of the selected ones and the selection
\* are unchanged.
C15_BulkChangeSetsSelected ==
    [][\A action \in {"changeStage", "changeOwner"}, value \in BulkValues :
           (HandleBulkChange(action, value) /\ ValueTruthy(value)) =>
               LET selected == SelectedIds(uiState.rowSelection)
                   field == IF action = "changeStage" THEN "stage" ELSE "owner"
                   map == IF action = "changeStage" THEN stageMap ELSE ownerMap
                   display == Lookup(map, value.text)
               IN  /\ Len(tableData') = Len(tableData)
                   /\ \A i \in 1..Len(tableData) :
                          tableData'[i] =
                              IF tableData[i].id \in selected
                              THEN [tableData[i] EXCEPT ![field] = display]
                              ELSE tableData[i]
                   /\ uiState'.rowSelection = uiState.rowSelection]_vars

---------------------------------------------------------------------------
(* Announcements *)

DispatchOps ==
    {"rowAction", "columnNotice", "columnSort", "columnHide",
     "bulkChange", "bulkNotice", "bulkDelete"}

\* where the message carries the count n, the word after it is "deal" for 1
\* and "deals" for any other count
CountWordAgrees(message) ==
    \A n \in 0..(MaxRecords + 1) :
        LET counted == MsgSpace \o NumberToString(n) \o MsgDeal
        IN  includes(MsgSpace \o message, counted) =>
                (includes(MsgSpace \o message, counted \o MsgPlural) <=> n # 1)

\* C16: after every dispatched row action, column action and bulk action,
\* whatever its arguments, there is an announcement (the message the action
\* made), and a count in it is followed by "deal" exactly when it is 1.
C16_EveryActionAnnounces ==
    last.op \in DispatchOps =>
        /\ announcementMessage # <<>>
        /\ CountWordAgrees(announcementMessage)

---------------------------------------------------------------------------
(* Totals *)

\* the quotient q is the number a / b
IsQuotient(q, a, b) == q.den > 0 /\ q.num * b = a * q.den

\* C17: over the rows displayed, the conversion rate is 100 times the number
\* of "Closed Won" rows divided by the number of rows, the average deal value
\* is the sum of the deal values divided by the number of rows, both are 0
\* when no row is displayed, and the selected count is the number of ids the
\* selection map maps to true; one "Closed Won" in the five mock records gives
\* a rate of 20.
C17_TotalsOverVisibleRows ==
    LET rows == VisibleRows
        visible == Len(rows)
        won == Cardinality({i \in 1..visible : rows[i].stage = StageClosedWon})
        values == SumOf(rows, "dealValue")
    IN  /\ IF visible = 0
           THEN /\ IsQuotient(Totals.conversionRate, 0, 1)
                /\ IsQuotient(Totals.averageDealValue, 0, 1)
           ELSE /\ IsQuotient(Totals.conversionRate, 100 * won, visible)
                /\ IsQuotient(Totals.averageDealValue, values, visible)
        /\ Totals.selected =
               Cardinality({id \in DOMAIN uiState.rowSelection : uiState.rowSelection[id] = TRUE})
        /\ (tableData = mockData /\ uiState.filters = DefaultFilters)
               => IsQuotient(Totals.conversionRate, 20, 1)

\* three of the five mock records displayed, one of them won and one of them
\* selected: a rate of 100/3
C17_Witness ==
    /\ tableData = mockData
    /\ Len(VisibleRows) = 3
    /\ Totals.conversionRate.num * 3 = 100 * Totals.conversionRate.den
    /\ Totals.selected = 1
    /\ Cardinality(DOMAIN uiState.rowSelection) = 2

---------------------------------------------------------------------------
(* Row actions on ids that are not in the store *)

\* C18: a row action duplicate, change-owner, change-stage or delete on an id
\* that is not in the record store leaves the record store and the view state
\* as they were and raises no error.
C18_MissingIdIsNoOp ==
    [][\A action \in {"duplicate", "changeOwner", "changeStage", "delete"},
          dealId \in RowActionIds, value \in RowActionValues :
           (HandleRowAction(action, dealId, value) /\ dealId \notin RowIds(tableData)) =>
               /\ tableData' = tableData
               /\ uiState' = uiState
               /\ ~crashed']_vars

\* a change of owner was asked for the first record after it was deleted, while
\* its id was still selected
C18_Witness ==
    /\ last.op = "rowAction"
    /\ last.action = "changeOwner"
    /\ ValueTruthy(last.value)
    /\ last.dealId = mockData[1].id
    /\ last.dealId \notin RowIds(tableData)
    /\ last.dealId \in SelectedIds(uiState.rowSelection)
    /\ ~crashed

---------------------------------------------------------------------------
(* Column widths *)

\* C19: every width in the column-width map, and every width handed to a
\* header, is at least the minimum of 40.
C19_WidthsAtLeastMinimum ==
    /\ \A columnId \in DOMAIN uiState.columnWidths : uiState.columnWidths[columnId] >= 40
    /\ \A i \in 1..Len(columnConfig) :
           columnConfig[i].visible =>
               ResolvedWidth(columnConfig[i], uiState.columnWidths) >= 40

---------------------------------------------------------------------------
(* Sort fields *)

\* C20: every entry of the sort specification names a field of the records
\* other than the identifier.
C20_SortFieldsAreRecordFields ==
    \A i \in 1..Len(uiState.sorts) : uiState.sorts[i].column \in DealFields \ {"id"}

---------------------------------------------------------------------------
(* Startup *)

\* the blob read cannot be used: there is none, it is empty, or it is not JSON
Unreadable(item) == item = Absent \/ "raw" \in DOMAIN item

\* C11: after a startup that found the blob absent, empty or not parseable, no
\* error has escaped and the view state is the documented default: the static
\* columns visible except activities timeline, last interaction, quotes &
\* invoices, contacts, accounts and forecast value; no sort key; empty search,
\* stage set and owner set; value range [0, 200000]; nothing selected, nothing
\* expanded.
C11_UnreadableBlobGivesDefault ==
    (last.op = "reload" /\ Unreadable(last.loaded)) =>
        /\ ~crashed
        /\ {columnConfig[i].id : i \in {j \in 1..Len(columnConfig) : ~columnConfig[j].visible}}
               = {"activitiesTimeline", "lastInteraction", "quotesInvoices",
                  "contacts", "accounts", "forecastValue"}
        /\ uiState.sorts = <<>>
        /\ uiState.filters.search = <<>>
        /\ uiState.filters.stage = <<>>
        /\ uiState.filters.owner = <<>>
        /\ uiState.filters.dealValueRange = <<0, 200000>>
        /\ SelectedIds(uiState.rowSelection) = {}
        /\ uiState.expandedRows = <<>>
        /\ VisibleRows = tableData

\* a startup on text that is not JSON has shown the table in its default state
C11_Witness ==
    /\ last.op = "reload"
    /\ "raw" \in DOMAIN last.loaded
    /\ last.loaded.raw # <<>>
    /\ ~crashed
    /\ uiState = DefaultUIState
    /\ storage[EffectKey] = JSONstringify(DefaultUIState)

\* a value with the fields of a UIState, its filters with their four fields
HasViewStateShape(value) ==
    /\ DOMAIN value = DOMAIN DefaultUIState
    /\ DOMAIN value.filters = DOMAIN DefaultFilters

\* C12: after a startup on a blob that parses but has not the shape of a view
\* state, the view state is the default one and nothing has thrown, on load or
\* in the pipeline.
C12_MisshapenBlobGivesDefault ==
    (/\ last.op = "reload"
     /\ ~Unreadable(last.loaded)
     /\ ~HasViewStateShape(JSONparse(last.loaded).value))
        => (~crashed /\ uiState = DefaultUIState)

---------------------------------------------------------------------------
(* Filters and the selection *)

\* C21: changing the filter criteria or clearing the filters leaves the row
\* selection unchanged: every id selected before is selected afterwards, the
\* ids of records the new filter hides included.
C21_FilterChangeKeepsSelection ==
    [][((\E newFilters \in RowFilterInputs : OnFiltersChange(newFilters)) \/ OnClearFilters)
           => /\ uiState'.rowSelection = uiState.rowSelection
              /\ SelectedIds(uiState.rowSelection) \subseteq SelectedIds(uiState'.rowSelection)]_vars

\* a filter change has hidden a record that is selected
C21_Witness ==
    /\ last.op = "onFiltersChange"
    /\ \E id \in SelectedIds(uiState.rowSelection) :
           id \in RowIds(tableData) \ RowIds(VisibleRows)

---------------------------------------------------------------------------
(* Updates while the storage write fails *)

\* what each view-state update leaves in memory, computed from the view state
\* in memory before it
UpdateTakesEffect ==
    /\ \A columnId \in PersistColumnIds :
           HandleSort(columnId) =>
               uiState' = [uiState EXCEPT !.sorts = HandleSortResult(uiState.sorts, columnId)]
    /\ \A rowId \in PersistRowIds :
           /\ HandleSelectRow(rowId) =>
                  /\ IsSelected(uiState'.rowSelection, rowId) = ~IsSelected(uiState.rowSelection, rowId)
                  /\ uiState'.sorts = uiState.sorts
           /\ SelectCheckboxChange(rowId) =>
                  /\ IsSelected(uiState'.rowSelection, rowId) = ~IsSelected(uiState.rowSelection, rowId)
                  /\ uiState'.sorts = uiState.sorts
           /\ ToggleRowExpansion(rowId) =>
                  /\ InSeq(rowId, uiState'.expandedRows) = ~InSeq(rowId, uiState.expandedRows)
                  /\ uiState'.rowSelection = uiState.rowSelection
    /\ HandleSelectAll =>
           uiState' = [uiState EXCEPT
                          !.rowSelection = HandleSelectAllResult(uiState.rowSelection, VisibleRows)]
    /\ \A columnId \in PersistColumnIds, width \in PersistWidths :
           HandleColumnResize(columnId, width) =>
               /\ columnId \in DOMAIN uiState'.columnWidths
               /\ uiState'.columnWidths[columnId] = width
               /\ uiState'.rowSelection = uiState.rowSelection
    /\ \A newFilters \in RowFilterInputs :
           OnFiltersChange(newFilters) => uiState' = [uiState EXCEPT !.filters = newFilters]
    /\ OnClearFilters => uiState' = [uiState EXCEPT !.filters = DefaultFilters]
    /\ HandleBulkDelete => uiState' = [uiState EXCEPT !.rowSelection = EmptyMap]

\* C22: when the storage write of a view-state update fails, the error does
\* not leave the update (the component keeps running, the blob stays as it
\* was) and the view state in memory takes the new value, computed from the
\* value in memory and not from the blob.
C22_FailedWriteStillUpdates ==
    [][storageDown =>
           /\ UpdateTakesEffect
           /\ ~crashed'
           /\ storage' = storage]_vars

\* two updates made while the write fails: the sort toggle has kept the
\* selection made before it, and the blob holds neither
C22_Witness ==
    /\ last.op = "handleSort"
    /\ storageDown
    /\ ~crashed
    /\ Len(uiState.sorts) = 1
    /\ SelectedIds(uiState.rowSelection) # {}
    /\ storage[EffectKey] = JSONstringify(DefaultUIState)

---------------------------------------------------------------------------
(* The place of a new sort key *)

\* C23 as stated: a header click on a column absent from the sort
\* specification adds it, ascending, as the primary (first) key.
C23_NewKeyIsPrimary ==
    [][\A columnId \in SortHeaderColumns :
           (HandleSort(columnId)
               /\ \A i \in 1..Len(uiState.sorts) : uiState.sorts[i].column # columnId)
           => /\ Len(uiState'.sorts) = Len(uiState.sorts) + 1
              /\ uiState'.sorts[1] = [column |-> columnId, direction |-> "asc"]]_vars

\* C23 as amended: a header click on a column absent from the sort
\* specification adds it, ascending, as the last (lowest-precedence) key, after
\* the keys already there, which keep their places; the new key is the primary
\* key exactly when the sort specification was empty.
C23_NewKeyIsLast ==
    [][\A columnId \in SortHeaderColumns :
           (HandleSort(columnId)
               /\ \A i \in 1..Len(uiState.sorts) : uiState.sorts[i].column # columnId)
           => LET n == Len(uiState.sorts)
              IN  /\ Len(uiState'.sorts) = n + 1
                  /\ uiState'.sorts[n + 1] = [column |-> columnId, direction |-> "asc"]
                  /\ \A i \in 1..n : uiState'.sorts[i] = uiState.sorts[i]
                  /\ (uiState'.sorts[1].column = columnId <=> n = 0)]_vars

\* the click on dealValue, absent, with stage already a key: stage is still
\* the primary key
C23_Witness ==
    /\ last.op = "handleSort"
    /\ uiState.sorts = <<[column |-> "stage", direction |-> "asc"],
                         [column |-> "dealValue", direction |-> "asc"]>>

---------------------------------------------------------------------------
(* The two forms of the view-state update *)

\* C24: the view-state update accepts a full replacement state as well as a
\* transformation function: the column visibility toggle and the column
\* reorder, which pass a replacement, set the view state to that replacement
\* without error.
C24_UpdateAcceptsReplacement ==
    [][/\ \A columnId \in AllColumnIds, visible \in BOOLEAN :
              OnColumnToggle(columnId, visible) =>
                  /\ ~crashed'
                  /\ uiState' =
                         [uiState EXCEPT !.columnConfig =
                             [i \in 1..Len(columnConfig) |->
                                 IF columnConfig[i].id = columnId
                                 THEN [columnConfig[i] EXCEPT !.visible = visible]
                                 ELSE columnConfig[i]]]
       /\ \A fromIndex, toIndex \in 1..Len(DefaultColumnConfig) :
              OnColumnReorder(fromIndex, toIndex) =>
                  /\ ~crashed'
                  /\ Len(uiState'.columnConfig) = Len(columnConfig)
                  /\ uiState'.columnConfig[toIndex] = columnConfig[fromIndex]]_vars

---------------------------------------------------------------------------
(* Row expansion *)

\* C25: toggling the expansion of row r flips r's membership in the
\* expanded-row set and leaves the membership of every other id unchanged (so
\* several rows can be expanded at once); the set never holds an id twice; and
\* toggling the same row twice in a row restores the set of before.
C25_ToggleFlipsMembership ==
    /\ [][\A rowId \in RowIds(tableData) :
              ToggleRowExpansion(rowId) =>
                  LET before == ExpandedIds(uiState.expandedRows)
                      after == ExpandedIds(uiState'.expandedRows)
                  IN  /\ (rowId \in after) = (rowId \notin before)
                      /\ after \ {rowId} = before \ {rowId}]_vars
    /\ [](\A i, j \in 1..Len(uiState.expandedRows) :
              i # j => uiState.expandedRows[i] # uiState.expandedRows[j])
    /\ []((last.op = "toggleRowExpansion" /\ last.run = 2)
              => ExpandedIds(uiState.expandedRows) = last.beforePrevious)

\* a row collapsed and expanded again while another row stays expanded
C25_Witness ==
    /\ last.op = "toggleRowExpansion"
    /\ last.run = 2
    /\ last.row \in ExpandedIds(uiState.expandedRows)
    /\ Cardinality(ExpandedIds(uiState.expandedRows)) = 2
    /\ ExpandedIds(uiState.expandedRows) = last.beforePrevious

---------------------------------------------------------------------------
(* Select-all and the rows the filter hides *)

\* C26: select-all changes the selection of visible rows only: every record
\* that is not among the rows given to select-all (the filter hides it) is
\* selected afterwards exactly if it was selected before, whether select-all
\* selects or clears, and also when no row is visible.
C26_SelectAllKeepsHiddenRows ==
    [][HandleSelectAll =>
           \A id \in RowIds(tableData) \ RowIds(VisibleRows) :
               IsSelected(uiState'.rowSelection, id) = IsSelected(uiState.rowSelection, id)]_vars

---------------------------------------------------------------------------
(* The selection, the expanded rows and the store *)

\* C27: in every reachable state every selected id and every expanded id is
\* the id of a record of the store, so the selected count of the totals is at
\* most the total count; after row delete and bulk delete as well.
C27_SelectedAndExpandedInStore ==
    /\ SelectedIds(uiState.rowSelection) \subseteq RowIds(tableData)
    /\ ExpandedIds(uiState.expandedRows) \subseteq RowIds(tableData)
    /\ Totals.selected <= Totals.total

---------------------------------------------------------------------------
(* Persist, then reload *)

\* C28: persist then reload is a round trip. The slot that startup reads is
\* the slot that updates write: a slot an update has written holds the last
\* view state, as the slot read at startup does. So a session started after
\* any sequence of view-state updates, with no storage failure, begins with
\* exactly the view state the previous session ended with: the persisted
\* aggregate and the column descriptors the table is drawn from.
C28_ReloadRestoresViewState ==
    /\ [][Reload =>
              /\ ~crashed'
              /\ uiState' = uiState
              /\ columnConfig' = columnConfig]_vars
    /\ [](storage[SaveKey] \in {Absent, storage[EffectKey]})

====
